---------------------------- MODULE Spec2Model ----------------------------
(***************************************************************************)
(* ProjectileMotionSimulator: the simulation clock (start / tick / end /   *)
(* reset), the kinematics and the flight-envelope estimator, in the two    *)
(* variants the repository holds:                                          *)
(*   "angled"  src/unnamed/part_000  constant gravity, launch from ground  *)
(*   "podium"  src/script.js         gravity 7/(h+5), launch from a podium *)
(*                                                                         *)
(* Numbers.  The code computes in double precision; the model computes in  *)
(* integers of fixed scale:                                                *)
(*   time                 ms           (performance.now(), currentTime)    *)
(*   flightTime           1/(5g) ms    (FtPerMs units per ms; 2*v0y/g is   *)
(*                                      then the integer v0y below)        *)
(*   height, x            1e-7 m                                           *)
(*   current velocities   1e-6 m/s                                         *)
(*   initialVelocity      0.1 m/s      (the slider's value)                *)
(*   angles               degrees                                          *)
(*   sin, cos             1/1000                                           *)
(* The DOM (ball, podium, tick marks, button text) is not modelled.        *)
(***************************************************************************)
EXTENDS Integers, Sequences, FiniteSets, TLC

VARIABLES
    variant,            \* which of the two source files runs
    isRunning, animationId, startTime,
    initialVelocity, mass, initialHeight, launchAngle,
    currentTime, currentHeight, currentX,
    currentVelocityX, currentVelocityY,     \* part_000
    currentVelocity,                        \* script.js
    maxHeight, flightTime,
    now,                \* the wall clock performance.now() reads
    pending,            \* callbacks requestAnimationFrame holds: [id, run]
    run,                \* history: how many runs have been started
    inputs,             \* history: how many slider events have been handled
    lastEvent,          \* history: the handler that ran last ("start" is a
                        \* startSimulation() from Idle, "startIgnored" one
                        \* while Running)
    lastInput           \* history: the raw value that handler was given

vars == << variant, isRunning, animationId, startTime, initialVelocity, mass,
           initialHeight, launchAngle, currentTime, currentHeight, currentX,
           currentVelocityX, currentVelocityY, currentVelocity, maxHeight,
           flightTime, now, pending, run, inputs, lastEvent, lastInput >>

----------------------------------------------------------------------------
(* Bounds of the model *)

MaxRuns == 2            \* runs started in one behaviour
MaxSyncDelay == 2       \* ms the clock may advance inside startSimulation
MaxInputs == 2          \* slider events handled in one behaviour
MaxSteps == 8200        \* integration sub-steps tabulated per parameter pair

\* The instants (ms) at which the wall clock is read.
Instants == {0, 1, 2, 16, 320, 1200, 7700}

\* Raw slider values: speed in 0.1 m/s, angle in degrees, height in 1e-7 m.
AngledVelocityInputs == {5, 25}
PodiumVelocityInputs == {0, 5, 25}
AngleInputs == {-5, 0, 25, 30, 45, 46, 65, 75, 80}
HeightInputs == {0, 25000000}
MassInputs == {1, 2}

----------------------------------------------------------------------------
(* Program constants *)

gravity == 7
GroundEpsilon == 100000         \* epsilon = 0.01 m
TimeEpsilon == 1                \* timeEpsilon = 0.001 s
MinFlightMs == 100              \* the 0.1 s floor of flightTime
FallbackMs == 100000            \* the 100 s fallback of flightTime
PeakCeilingMs == 100000         \* peak search: t < 100
LandCeilingMs == 200000         \* landing search: t < 200
PeakStepMs == 10                \* peak search: dt = 0.01
LandStepMs == 100               \* landing search: t += 0.1
DefaultVelocity == 25           \* initialVelocity = 2.5
DefaultAngle == 25              \* launchAngle = 25
PodiumDefaultHeight == 25000000 \* initialHeight = 2.5

FtPerMs == 5 * gravity          \* flightTime units in one millisecond

Max(a, b) == IF a >= b THEN a ELSE b

Abs(a) == IF a >= 0 THEN a ELSE 0 - a

\* Math.sqrt on the integers: the largest r with r*r <= n.
RECURSIVE SqrtFrom(_, _)
SqrtFrom(n, r) == IF (r + 1) * (r + 1) > n THEN r ELSE SqrtFrom(n, r + 1)

Sqrt(n) == SqrtFrom(n, 0)

\* Math.sin and Math.cos of the angles launchAngle can hold, in 1/1000.
SinDeg(a) ==
    CASE a = 0 -> 0 [] a = 5 -> 87 [] a = 10 -> 174 [] a = 25 -> 423
      [] a = 65 -> 906 [] a = 70 -> 940 [] a = 75 -> 966 [] a = 90 -> 1000

CosDeg(a) ==
    CASE a = 0 -> 1000 [] a = 5 -> 996 [] a = 10 -> 985 [] a = 25 -> 906
      [] a = 65 -> 423 [] a = 70 -> 342 [] a = 75 -> 259 [] a = 90 -> 0

Sin(a) == IF a < 0 THEN 0 - SinDeg(0 - a) ELSE SinDeg(a)

Cos(a) == IF a < 0 THEN CosDeg(0 - a) ELSE CosDeg(a)

----------------------------------------------------------------------------
(* part_000: closed-form kinematics and estimator *)

\* Mutant: the height is returned without Math.max(0, height).
calculatePositionAngledNoClamp(v, a, h0, time) ==
    LET v0x == v * Cos(a)
        v0y == v * Sin(a)
    IN [x |-> v0x * time,
        height |-> h0 + (v0y * time) - (5 * gravity * time * time),
        velocityX |-> v0x * 100,
        velocityY |-> (v0y - (10 * gravity * time)) * 100]

\* calculatePosition(time), with this.initialVelocity, this.launchAngle and
\* this.initialHeight passed as v, a and h0.
calculatePositionAngled(v, a, h0, time) ==
    LET v0x == v * Cos(a)                  \* 1e-4 m/s
        v0y == v * Sin(a)                  \* 1e-4 m/s
        x == v0x * time
        height == h0 + (v0y * time) - (5 * gravity * time * time)
    IN [x |-> x,
        height |-> Max(0, height),
        velocityX |-> v0x * 100,
        velocityY |-> (v0y - (10 * gravity * time)) * 100]

\* Mutant: the flight time has no floor.
calculateMaxHeightAngledNoFloor(v, a, h0) ==
    LET v0y == v * Sin(a)
    IN [maxHeight |-> h0 + ((v0y * v0y) \div (20 * gravity)),
        flightTime |-> Abs(v0y)]

\* calculateMaxHeight(): the envelope [maxHeight, flightTime].
calculateMaxHeightAngled(v, a, h0) ==
    LET v0y == v * Sin(a)
        peak == h0 + ((v0y * v0y) \div (20 * gravity))
        disc == (v0y * v0y) + (20 * gravity * h0)
        t1 == (v0y - Sqrt(disc)) \div 2
        t2 == (v0y + Sqrt(disc)) \div 2
        ft == IF h0 = 0
              THEN (IF Abs(v0y) > 10 THEN Abs(v0y) ELSE MinFlightMs * FtPerMs)
              ELSE (IF disc >= 0 THEN Max(t1, t2) ELSE MinFlightMs * FtPerMs)
    IN [maxHeight |-> peak, flightTime |-> Max(ft, MinFlightMs * FtPerMs)]

----------------------------------------------------------------------------
(* part_000 in the arithmetic of JavaScript numbers (IEEE-754 binary64,   *)
(* round to nearest, ties to even), for the one place where the fixed     *)
(* scale above cannot follow the code: calculatePosition at time =        *)
(* flightTime, where the estimator's quotient 2*v0y/g and the products of *)
(* height are each rounded.  A natural number is the sequence of its      *)
(* bits, lowest first; a double >= 0 is [m, e] of value m * 2^e with m of *)
(* at most Precision bits, and zero is m = << >>.  The values here are    *)
(* far from the subnormal and the overflow range, which are not modelled. *)

Precision == 53

RECURSIVE Bits(_)
Bits(n) == IF n = 0 THEN << >> ELSE << n % 2 >> \o Bits(n \div 2)

Zeros(k) == [i \in 1..k |-> 0]

\* A natural number without its leading zero bits.
Trim(a) ==
    LET ones == {i \in 1..Len(a) : a[i] = 1}
    IN IF ones = {} THEN << >>
       ELSE SubSeq(a, 1, CHOOSE i \in ones : \A j \in ones : j <= i)

\* The number that bits lo..hi of a spell (bits above Len(a) are 0).
RECURSIVE Value(_, _, _)
Value(a, lo, hi) ==
    IF lo > Len(a) \/ lo > hi THEN 0
    ELSE IF lo = hi THEN a[lo]
    ELSE LET mid == (lo + hi) \div 2
         IN Value(a, lo, mid) + ((2 ^ (mid + 1 - lo)) * Value(a, mid + 1, hi))

\* A number as its digits of base 4096 (12 bits each), lowest first, and
\* back: the sums, products and quotients below are worked digit by digit.
Digits(a) ==
    [k \in 1..((Len(a) + 11) \div 12) |-> Value(a, (12 * k) - 11, 12 * k)]

FromDigits(ds) ==
    Trim([i \in 1..(12 * Len(ds)) |->
            (ds[((i - 1) \div 12) + 1] \div (2 ^ ((i - 1) % 12))) % 2])

\* s[lo] + ... + s[hi].
RECURSIVE Sum(_, _, _)
Sum(s, lo, hi) ==
    IF lo > hi THEN 0
    ELSE IF lo = hi THEN s[lo]
    ELSE LET mid == (lo + hi) \div 2
         IN Sum(s, lo, mid) + Sum(s, mid + 1, hi)

\* The digits of the number whose digit columns sum to cols, with carry c.
RECURSIVE Carry(_, _)
Carry(cols, c) ==
    IF cols = << >>
    THEN (IF c = 0 THEN << >> ELSE << c % 4096 >> \o Carry(cols, c \div 4096))
    ELSE << (Head(cols) + c) % 4096 >>
            \o Carry(Tail(cols), (Head(cols) + c) \div 4096)

BigAdd(a, b) ==
    LET x == Digits(a)
        y == Digits(b)
    IN FromDigits(Carry([k \in 1..Max(Len(x), Len(y)) |->
                           (IF k <= Len(x) THEN x[k] ELSE 0)
                               + (IF k <= Len(y) THEN y[k] ELSE 0)], 0))

BigMul(a, b) ==
    LET x == Digits(a)
        y == Digits(b)
    IN FromDigits(Carry([k \in 1..(Len(x) + Len(y)) |->
                           Sum([i \in 1..Len(x) |->
                                   IF (k + 1 - i) \in 1..Len(y)
                                   THEN x[i] * y[k + 1 - i]
                                   ELSE 0], 1, Len(x))], 0))

\* a < b, for numbers without leading zeros.
BigLess(a, b) ==
    \/ Len(a) < Len(b)
    \/ /\ Len(a) = Len(b)
       /\ \E i \in 1..Len(a) :
             /\ a[i] < b[i]
             /\ \A j \in (i + 1)..Len(a) : a[j] = b[j]

\* The digits of x - y for x >= y, with borrow c.
RECURSIVE Borrow(_, _, _)
Borrow(x, y, c) ==
    IF x = << >> THEN << >>
    ELSE LET d == Head(x) - (IF y = << >> THEN 0 ELSE Head(y)) - c
         IN << (d + 4096) % 4096 >>
                \o Borrow(Tail(x), IF y = << >> THEN << >> ELSE Tail(y),
                          IF d < 0 THEN 1 ELSE 0)

BigSub(a, b) == FromDigits(Borrow(Digits(a), Digits(b), 0))

\* The double nearest to m * 2^e, ties to the even mantissa.
RoundToDouble(m, e) ==
    LET a == Trim(m)
        n == Len(a) - Precision
    IN IF n <= 0 THEN [m |-> a, e |-> e]
       ELSE LET kept == SubSeq(a, n + 1, Len(a))
                half == a[n] = 1
                sticky == \E i \in 1..(n - 1) : a[i] = 1
                r == IF half /\ (sticky \/ kept[1] = 1)
                     THEN BigAdd(kept, << 1 >>)
                     ELSE kept
            IN IF Len(r) > Precision
               THEN [m |-> Tail(r), e |-> e + n + 1]
               ELSE [m |-> r, e |-> e + n]

\* The double (hi * 2^27 + lo) * 2^e, for writing a 53-bit mantissa.
Double(hi, lo, e) ==
    LET low == Bits(lo)
    IN [m |-> Trim(low \o Zeros(27 - Len(low)) \o Bits(hi)), e |-> e]

\* x * y.
Times(x, y) == RoundToDouble(BigMul(x.m, y.m), x.e + y.e)

\* x / d for an integer d in 1..255: the quotient is developed to more
\* than Precision + 2 bits and a bit for a non-zero remainder is put below.
Over(x, d) ==
    LET shift == Precision + 12
        a == Digits(Zeros(shift) \o x.m)
        n == Len(a)
        rem[i \in 1..(n + 1)] ==
            IF i = n + 1 THEN 0 ELSE ((4096 * rem[i + 1]) + a[i]) % d
        q == [i \in 1..n |-> ((4096 * rem[i + 1]) + a[i]) \div d]
    IN IF x.m = << >> THEN x
       ELSE RoundToDouble(<< IF rem[1] = 0 THEN 0 ELSE 1 >> \o FromDigits(q),
                          x.e - shift - 1)

\* x with a mantissa of exactly Precision bits (x > 0).
Normal(x) ==
    LET k == Precision - Len(x.m)
    IN [m |-> Zeros(k) \o x.m, e |-> x.e - k]

\* x < y, for x >= 0 and y >= 0.
Less(x, y) ==
    IF y.m = << >> THEN FALSE
    ELSE IF x.m = << >> THEN TRUE
    ELSE LET nx == Normal(x)
             ny == Normal(y)
         IN nx.e < ny.e \/ (nx.e = ny.e /\ BigLess(nx.m, ny.m))

\* x - y, for x >= 0 and y >= 0: [neg, m, e], of value -(m * 2^e) if neg.
Minus(x, y) ==
    IF y.m = << >> THEN [neg |-> FALSE, m |-> x.m, e |-> x.e]
    ELSE IF x.m = << >> THEN [neg |-> TRUE, m |-> y.m, e |-> y.e]
    ELSE LET e0 == IF x.e <= y.e THEN x.e ELSE y.e
             a == Zeros(x.e - e0) \o x.m
             b == Zeros(y.e - e0) \o y.m
             neg == BigLess(a, b)
             r == RoundToDouble(IF neg THEN BigSub(b, a) ELSE BigSub(a, b), e0)
         IN [neg |-> neg /\ r.m # << >>, m |-> r.m, e |-> r.e]

\* Math.sin((launchAngle * Math.PI) / 180) for the angles of AllowedAngles
\* the sliders can set.
SinDouble(a) ==
    CASE a = 0 -> Double(0, 0, 0)
      [] a = 25 -> Double(56722862, 121083987, -54)   \* 0.42261826174069944
      [] a = 65 -> Double(60821286, 3004263, -53)     \* 0.9063077870366499
      [] a = 75 -> Double(64822184, 122208021, -53)   \* 0.9659258262890683

Milli == Double(34359738, 49392124, -62)        \* the literal 0.001

Tenth == Double(53687091, 26843546, -56)        \* the literal 0.1

\* parseFloat of the speed slider's value, v tenths.
ParseTenths(v) == Over([m |-> Bits(v), e |-> 0], 10)

\* v0y of calculateMaxHeight and of calculatePosition.
V0yDouble(v, a) == Times(ParseTenths(v), SinDouble(a))

\* this.flightTime after calculateMaxHeight() for a launch from the ground.
flightTimeDouble(v, a) ==
    LET v0y == V0yDouble(v, a)
        ft == IF Less(Milli, v0y)
              THEN Over(Times([m |-> Bits(2), e |-> 0], v0y), gravity)
              ELSE Tenth
    IN IF Less(ft, Tenth) THEN Tenth ELSE ft

\* calculatePosition(time).height for a launch from the ground:
\* Math.max(0, 0 + (v0y * time) - (0.5 * this.gravity * time * time)).
heightDouble(v, a, time) ==
    LET halfG == Times([m |-> Bits(1), e |-> -1], [m |-> Bits(gravity), e |-> 0])
        height == Minus(Times(V0yDouble(v, a), time),
                        Times(Times(halfG, time), time))
    IN IF height.neg THEN [m |-> << >>, e |-> 0]
       ELSE [m |-> height.m, e |-> height.e]

----------------------------------------------------------------------------
(* script.js: numerical integration under g(h) = 7/(h + 5) *)

\* Mutant: the height is advanced with the velocity of the step before.
IntegrateStepExplicit(s) ==
    IF s.landed THEN s
    ELSE LET currentGravityDt == 700000000 \div ((s.height \div 100) + 500000)
             v2 == s.velocity - currentGravityDt
             h2 == s.height + (s.velocity \div 100)
         IN IF h2 <= 0
            THEN [height |-> 0, velocity |-> 0, landed |-> TRUE]
            ELSE [height |-> h2, velocity |-> v2, landed |-> FALSE]

\* One pass of the loop body of calculatePosition, dt = 0.001: velocity from
\* gravity at the current height, then height from the new velocity; at the
\* ground the loop breaks with height 0 and velocity 0 (landed).
IntegrateStep(s) ==
    IF s.landed THEN s
    ELSE LET currentGravityDt == 700000000 \div ((s.height \div 100) + 500000)
             v2 == s.velocity - currentGravityDt
             h2 == s.height + (v2 \div 100)
         IN IF h2 <= 0
            THEN [height |-> 0, velocity |-> 0, landed |-> TRUE]
            ELSE [height |-> h2, velocity |-> v2, landed |-> FALSE]

\* The states after passes 1..n of the loop, from state s.  The passes are
\* split in halves so that the evaluation depth is logarithmic in n.
RECURSIVE Passes(_, _)
Passes(s, n) ==
    IF n = 0 THEN << >>
    ELSE IF n = 1 THEN << IntegrateStep(s) >>
    ELSE LET left == Passes(s, n \div 2)
         IN left \o Passes(left[Len(left)], n - (n \div 2))

\* The loop's states per parameter pair, computed once.
Trajectory ==
    [v \in PodiumVelocityInputs, h0 \in HeightInputs |->
        Passes([height |-> h0, velocity |-> v * 100000, landed |-> FALSE],
               MaxSteps)]

\* A speed (7.0 m/s) and a podium height (1.5 m) from which the ball has not
\* come back to the podium when the estimator's searches give up.
LongShot == << 70, 15000000 >>

\* The loop's states for LongShot, up to the landing search's ceiling; only
\* the estimator samples them.
LongTrajectory ==
    Passes([height |-> LongShot[2], velocity |-> LongShot[1] * 100000,
            landed |-> FALSE], LandCeilingMs)

TrajectoryOf(v, h0) ==
    IF << v, h0 >> = LongShot THEN LongTrajectory ELSE Trajectory[v, h0]

\* calculatePosition(time), with this.initialVelocity and this.initialHeight
\* passed as v and h0: the loop runs for t = 0, dt, ... < time.
calculatePositionPodium(v, h0, time) ==
    IF time = 0
    THEN [height |-> h0, velocity |-> v * 100000]
    ELSE LET s == TrajectoryOf(v, h0)[time]
         IN [height |-> Max(0, s.height), velocity |-> s.velocity]

\* The first k in lo..hi at which the peak search breaks (velocity <= 0 and
\* t > 0, t = k * 0.01), or -1.
RECURSIVE FirstPeak(_, _, _, _)
FirstPeak(v, h0, lo, hi) ==
    IF lo > hi THEN -1
    ELSE IF lo = hi
    THEN (IF calculatePositionPodium(v, h0, lo * PeakStepMs).velocity <= 0 /\ lo > 0
          THEN lo ELSE -1)
    ELSE LET mid == (lo + hi) \div 2
             l == FirstPeak(v, h0, lo, mid)
         IN IF l # -1 THEN l ELSE FirstPeak(v, h0, mid + 1, hi)

\* Math.max of the heights sampled at t = k * 0.01, k in lo..hi.
RECURSIVE MaxSampled(_, _, _, _)
MaxSampled(v, h0, lo, hi) ==
    IF lo = hi THEN calculatePositionPodium(v, h0, lo * PeakStepMs).height
    ELSE LET mid == (lo + hi) \div 2
         IN Max(MaxSampled(v, h0, lo, mid), MaxSampled(v, h0, mid + 1, hi))

\* The first k in lo..hi at which the landing search breaks (t > 0.1 and
\* height <= initialHeight + 0.01, t = k * 0.1), or -1.
RECURSIVE FirstLanding(_, _, _, _)
FirstLanding(v, h0, lo, hi) ==
    IF lo > hi THEN -1
    ELSE IF lo = hi
    THEN (IF lo * LandStepMs > MinFlightMs
             /\ calculatePositionPodium(v, h0, lo * LandStepMs).height
                    <= h0 + GroundEpsilon
          THEN lo ELSE -1)
    ELSE LET mid == (lo + hi) \div 2
             l == FirstLanding(v, h0, lo, mid)
         IN IF l # -1 THEN l ELSE FirstLanding(v, h0, mid + 1, hi)

\* calculateMaxHeight(): the envelope [maxHeight, flightTime].
calculateMaxHeightPodium(v, h0) ==
    LET lastPeak == (PeakCeilingMs \div PeakStepMs) - 1
        kp == FirstPeak(v, h0, 0, lastPeak)
        peak == Max(h0, MaxSampled(v, h0, 0, IF kp = -1 THEN lastPeak ELSE kp))
        kl == FirstLanding(v, h0, 0, (LandCeilingMs \div LandStepMs) - 1)
        t == IF kl = -1 THEN 0 ELSE kl * LandStepMs
    IN [maxHeight |-> peak,
        flightTime |-> IF t = 0 THEN FallbackMs * FtPerMs ELSE t * FtPerMs]

\* The estimator's result per parameter pair, computed once.
Envelope == [v \in PodiumVelocityInputs, h0 \in HeightInputs |->
                calculateMaxHeightPodium(v, h0)]

----------------------------------------------------------------------------
(* The simulator object and the browser's frame queue, as one record, so *)
(* that a method is a function from the state before to the state after. *)

Self ==
    [isRunning |-> isRunning, animationId |-> animationId,
     startTime |-> startTime, initialVelocity |-> initialVelocity,
     mass |-> mass, initialHeight |-> initialHeight,
     launchAngle |-> launchAngle, currentTime |-> currentTime,
     currentHeight |-> currentHeight, currentX |-> currentX,
     currentVelocityX |-> currentVelocityX,
     currentVelocityY |-> currentVelocityY,
     currentVelocity |-> currentVelocity, maxHeight |-> maxHeight,
     flightTime |-> flightTime, pending |-> pending, run |-> run]

Become(s) ==
    /\ isRunning' = s.isRunning
    /\ animationId' = s.animationId
    /\ startTime' = s.startTime
    /\ initialVelocity' = s.initialVelocity
    /\ mass' = s.mass
    /\ initialHeight' = s.initialHeight
    /\ launchAngle' = s.launchAngle
    /\ currentTime' = s.currentTime
    /\ currentHeight' = s.currentHeight
    /\ currentX' = s.currentX
    /\ currentVelocityX' = s.currentVelocityX
    /\ currentVelocityY' = s.currentVelocityY
    /\ currentVelocity' = s.currentVelocity
    /\ maxHeight' = s.maxHeight
    /\ flightTime' = s.flightTime
    /\ pending' = s.pending
    /\ run' = s.run

\* A handle requestAnimationFrame may return: a positive integer that names
\* no queued callback and is not the handle the simulator still holds (the
\* browser counts upwards; only the identity of a handle is observable).
RECURSIVE FreshHandleFrom(_, _)
FreshHandleFrom(s, id) ==
    IF id # s.animationId /\ \A p \in s.pending : p.id # id
    THEN id
    ELSE FreshHandleFrom(s, id + 1)

\* Mutant: the callback is never queued.
requestAnimationFrameDropped(s) ==
    [s EXCEPT !.animationId = FreshHandleFrom(s, 1)]

\* this.animationId = requestAnimationFrame(() => this.animate()): the
\* callback is queued under a fresh handle; 0 stands for null.
requestAnimationFrame(s) ==
    LET id == FreshHandleFrom(s, 1)
    IN [s EXCEPT !.animationId = id,
                 !.pending = s.pending \cup {[id |-> id, run |-> s.run]}]

\* cancelAnimationFrame(id): the callback queued under id is dropped.
cancelAnimationFrame(s, id) ==
    [s EXCEPT !.pending = {p \in s.pending : p.id # id}]

----------------------------------------------------------------------------
(* part_000: the clock *)

calculateMaxHeightOfAngled(s) ==
    LET e == calculateMaxHeightAngled(s.initialVelocity, s.launchAngle,
                                      s.initialHeight)
    IN [s EXCEPT !.maxHeight = e.maxHeight, !.flightTime = e.flightTime]

\* Mutant: the queued callback is not cancelled.
endSimulationAngledNoCancel(s) ==
    [s EXCEPT !.isRunning = FALSE,
              !.animationId = 0,
              !.currentHeight = 0,
              !.currentVelocityX = 0,
              !.currentVelocityY = 0]

endSimulationAngled(s) ==
    LET s1 == [s EXCEPT !.isRunning = FALSE]
        s2 == IF s1.animationId # 0
              THEN [cancelAnimationFrame(s1, s1.animationId)
                        EXCEPT !.animationId = 0]
              ELSE s1
    IN [s2 EXCEPT !.currentHeight = 0,
                  !.currentVelocityX = 0,
                  !.currentVelocityY = 0]

\* Mutant: the ground test lacks its height tolerance.
animateAngledNoTolerance(s, t) ==
    IF ~s.isRunning THEN s
    ELSE
    LET elapsed == t - s.startTime
        position == calculatePositionAngled(s.initialVelocity, s.launchAngle,
                                            s.initialHeight, elapsed)
        s1 == [s EXCEPT !.currentTime = elapsed,
                        !.currentHeight = position.height,
                        !.currentX = position.x,
                        !.currentVelocityX = position.velocityX,
                        !.currentVelocityY = position.velocityY]
        hitGround == (s1.currentTime > TimeEpsilon) /\ (s1.currentHeight <= 0)
    IN IF s1.currentTime * FtPerMs >= s1.flightTime \/ hitGround
       THEN endSimulationAngled([s1 EXCEPT !.currentHeight = 0])
       ELSE requestAnimationFrame(s1)

\* animate(), t being what performance.now() returns in it.
animateAngled(s, t) ==
    IF ~s.isRunning THEN s
    ELSE
    LET elapsed == t - s.startTime
        position == calculatePositionAngled(s.initialVelocity, s.launchAngle,
                                            s.initialHeight, elapsed)
        s1 == [s EXCEPT !.currentTime = elapsed,
                        !.currentHeight = position.height,
                        !.currentX = position.x,
                        !.currentVelocityX = position.velocityX,
                        !.currentVelocityY = position.velocityY]
        hitGround == (s1.currentTime > TimeEpsilon)
                        /\ (s1.currentHeight <= GroundEpsilon)
    IN IF s1.currentTime * FtPerMs >= s1.flightTime \/ hitGround
       THEN endSimulationAngled([s1 EXCEPT !.currentHeight = 0])
       ELSE requestAnimationFrame(s1)

\* Mutant: a start while Running restarts the run.
startSimulationAngledRestart(s, t0, t1) ==
    LET s1 == [s EXCEPT !.isRunning = TRUE,
                        !.startTime = t0,
                        !.currentTime = 0,
                        !.currentX = 0,
                        !.run = s.run + 1]
    IN animateAngled(calculateMaxHeightOfAngled(s1), t1)

\* startSimulation(), t0 and t1 being what performance.now() returns in it
\* and in the animate() it calls.
startSimulationAngled(s, t0, t1) ==
    IF s.isRunning THEN s
    ELSE
    LET s1 == [s EXCEPT !.isRunning = TRUE,
                        !.startTime = t0,
                        !.currentTime = 0,
                        !.currentX = 0,
                        !.run = s.run + 1]
    IN animateAngled(calculateMaxHeightOfAngled(s1), t1)

resetSimulationAngled(s) ==
    LET s1 == endSimulationAngled(s)
    IN [s1 EXCEPT !.currentTime = 0,
                  !.currentHeight = s1.initialHeight,
                  !.currentX = 0,
                  !.currentVelocityX = 0,
                  !.currentVelocityY = 0]

\* Mutant: every angle of the forbidden range snaps down.
restrictAngleAlwaysDown(requestedAngle) ==
    IF requestedAngle > 25 /\ requestedAngle < 65
    THEN 25
    ELSE IF requestedAngle > 75 THEN 75
    ELSE requestedAngle

\* Mutant: the midpoint snaps up.
restrictAngleMidpointUp(requestedAngle) ==
    IF requestedAngle > 25 /\ requestedAngle < 65
    THEN (IF requestedAngle < 45 THEN 25 ELSE 65)
    ELSE IF requestedAngle > 75 THEN 75
    ELSE requestedAngle

\* The angle slider's restriction of the requested angle.
restrictAngle(requestedAngle) ==
    IF requestedAngle > 25 /\ requestedAngle < 65
    THEN (IF requestedAngle <= 45 THEN 25 ELSE 65)
    ELSE IF requestedAngle > 75 THEN 75
    ELSE requestedAngle

\* Mutant: the speed slider also resets the elapsed time.
velocityInputAngledResetsClock(s, value) ==
    calculateMaxHeightOfAngled([s EXCEPT !.initialVelocity = value,
                                         !.currentTime = 0])

velocityInputAngled(s, value) ==
    calculateMaxHeightOfAngled([s EXCEPT !.initialVelocity = value])

massInputAngled(s, value) == [s EXCEPT !.mass = value]

angleInputAngled(s, value) ==
    calculateMaxHeightOfAngled([s EXCEPT !.launchAngle = restrictAngle(value)])

----------------------------------------------------------------------------
(* script.js: the clock *)

calculateMaxHeightOfPodium(s) ==
    LET e == Envelope[s.initialVelocity, s.initialHeight]
    IN [s EXCEPT !.maxHeight = e.maxHeight, !.flightTime = e.flightTime]

endSimulationPodium(s) ==
    LET s1 == [s EXCEPT !.isRunning = FALSE]
        s2 == IF s1.animationId # 0
              THEN [cancelAnimationFrame(s1, s1.animationId)
                        EXCEPT !.animationId = 0]
              ELSE s1
    IN [s2 EXCEPT !.currentHeight = 0, !.currentVelocity = 0]

animatePodium(s, t) ==
    IF ~s.isRunning THEN s
    ELSE
    LET elapsed == t - s.startTime
        position == calculatePositionPodium(s.initialVelocity,
                                            s.initialHeight, elapsed)
        s1 == [s EXCEPT !.currentTime = elapsed,
                        !.currentHeight = position.height,
                        !.currentVelocity = position.velocity]
        returnedToStartHeight ==
            /\ s1.currentTime > TimeEpsilon
            /\ s1.currentHeight <= s1.initialHeight + GroundEpsilon
            /\ s1.currentVelocity <= 0
    IN IF s1.currentTime * FtPerMs >= s1.flightTime \/ returnedToStartHeight
       THEN endSimulationPodium([s1 EXCEPT !.currentHeight = s1.initialHeight])
       ELSE requestAnimationFrame(s1)

startSimulationPodium(s, t0, t1) ==
    IF s.isRunning THEN s
    ELSE
    LET s1 == [s EXCEPT !.isRunning = TRUE,
                        !.startTime = t0,
                        !.currentTime = 0,
                        !.run = s.run + 1]
    IN animatePodium(calculateMaxHeightOfPodium(s1), t1)

\* Mutant: the height is not put back to initialHeight.
resetSimulationPodiumNoHeight(s) ==
    LET s1 == endSimulationPodium(s)
    IN [s1 EXCEPT !.currentTime = 0, !.currentVelocity = 0]

resetSimulationPodium(s) ==
    LET s1 == endSimulationPodium(s)
    IN [s1 EXCEPT !.currentTime = 0,
                  !.currentHeight = s1.initialHeight,
                  !.currentVelocity = 0]

velocityInputPodium(s, value) ==
    calculateMaxHeightOfPodium([s EXCEPT !.initialVelocity = value])

massInputPodium(s, value) == [s EXCEPT !.mass = value]

heightInputPodium(s, value) ==
    LET s1 == calculateMaxHeightOfPodium([s EXCEPT !.initialHeight = value])
    IN IF ~s1.isRunning
       THEN [s1 EXCEPT !.currentHeight = s1.initialHeight]
       ELSE s1

----------------------------------------------------------------------------
(* The state after construction *)

Init ==
    /\ variant \in {"angled", "podium"}
    /\ isRunning = FALSE
    /\ animationId = 0
    /\ startTime = 0
    /\ initialVelocity = DefaultVelocity
    /\ mass = 1
    /\ initialHeight = (IF variant = "angled" THEN 0 ELSE PodiumDefaultHeight)
    /\ launchAngle = (IF variant = "angled" THEN DefaultAngle ELSE 90)
    /\ currentTime = 0
    /\ currentHeight = initialHeight
    /\ currentX = 0
    /\ currentVelocityX = 0
    /\ currentVelocityY = 0
    /\ currentVelocity = 0
    /\ maxHeight = 0
    /\ flightTime = 0
    /\ now = 0
    /\ pending = {}
    /\ run = 0
    /\ inputs = 0
    /\ lastEvent = "constructor"
    /\ lastInput = 0

----------------------------------------------------------------------------
(* Events *)

startSimulation(s, t0, t1) ==
    IF variant = "angled" THEN startSimulationAngled(s, t0, t1)
    ELSE startSimulationPodium(s, t0, t1)

\* What the two reads of the clock in a start from Idle may return: the
\* second is not before the first, and at most MaxSyncDelay after it.
SyncReads == {t \in Instants : now <= t /\ t <= now + MaxSyncDelay}

\* startSimulation() is called (the Run button, or any caller).
StartSimulation ==
    /\ isRunning \/ run < MaxRuns
    /\ \E t1 \in SyncReads :
          /\ isRunning => t1 = now
          /\ Become(startSimulation(Self, now, t1))
          /\ now' = t1
    /\ lastEvent' = (IF isRunning THEN "startIgnored" ELSE "start")
    /\ lastInput' = 0
    /\ UNCHANGED << variant, inputs >>

\* keydown: Enter starts the simulation unless it is running.
KeydownEnter ==
    /\ isRunning \/ run < MaxRuns
    /\ \E t1 \in SyncReads :
          /\ isRunning => t1 = now
          /\ Become(IF ~isRunning THEN startSimulation(Self, now, t1) ELSE Self)
          /\ now' = t1
    /\ lastEvent' = (IF isRunning THEN "keydown" ELSE "start")
    /\ lastInput' = 0
    /\ UNCHANGED << variant, inputs >>

ResetSimulation ==
    /\ Become(IF variant = "angled" THEN resetSimulationAngled(Self)
              ELSE resetSimulationPodium(Self))
    /\ lastEvent' = "reset"
    /\ lastInput' = 0
    /\ UNCHANGED << variant, now, inputs >>

\* The browser runs a queued frame callback: it leaves the queue, then
\* animate() runs.
AnimationFrame ==
    /\ \E p \in pending :
          LET s == [Self EXCEPT !.pending = pending \ {p}]
          IN Become(IF variant = "angled" THEN animateAngled(s, now)
                    ELSE animatePodium(s, now))
    /\ lastEvent' = "tick"
    /\ lastInput' = 0
    /\ UNCHANGED << variant, now, inputs >>

VelocityInput ==
    /\ inputs < MaxInputs
    /\ \E value \in (IF variant = "angled" THEN AngledVelocityInputs
                     ELSE PodiumVelocityInputs) :
          Become(IF variant = "angled" THEN velocityInputAngled(Self, value)
                    ELSE velocityInputPodium(Self, value))
    /\ lastInput' = 0
    /\ lastEvent' = "velocity"
    /\ inputs' = inputs + 1
    /\ UNCHANGED << variant, now >>

MassInput ==
    /\ inputs < MaxInputs
    /\ \E value \in MassInputs :
          Become(IF variant = "angled" THEN massInputAngled(Self, value)
                    ELSE massInputPodium(Self, value))
    /\ lastInput' = 0
    /\ lastEvent' = "mass"
    /\ inputs' = inputs + 1
    /\ UNCHANGED << variant, now >>

AngleInput ==
    /\ inputs < MaxInputs
    /\ variant = "angled"
    /\ \E value \in AngleInputs :
          /\ Become(angleInputAngled(Self, value))
          /\ lastInput' = value
    /\ lastEvent' = "angle"
    /\ inputs' = inputs + 1
    /\ UNCHANGED << variant, now >>

HeightInput ==
    /\ inputs < MaxInputs
    /\ variant = "podium"
    /\ \E value \in HeightInputs :
          Become(heightInputPodium(Self, value))
    /\ lastInput' = 0
    /\ lastEvent' = "height"
    /\ inputs' = inputs + 1
    /\ UNCHANGED << variant, now >>

\* Time passes between two events.
AdvanceTime ==
    /\ \E t \in Instants : t > now /\ now' = t
    /\ lastEvent' = "clock"
    /\ lastInput' = 0
    /\ UNCHANGED << variant, isRunning, animationId, startTime,
                    initialVelocity, mass, initialHeight, launchAngle,
                    currentTime, currentHeight, currentX, currentVelocityX,
                    currentVelocityY, currentVelocity, maxHeight, flightTime,
                    pending, run, inputs >>

Next ==
    \/ StartSimulation
    \/ KeydownEnter
    \/ ResetSimulation
    \/ AnimationFrame
    \/ VelocityInput
    \/ MassInput
    \/ AngleInput
    \/ HeightInput
    \/ AdvanceTime

Spec == Init /\ [][Next]_vars

\* The browser delivers queued frame callbacks and the wall clock keeps
\* advancing (up to the last instant the model follows): weak fairness of
\* AnimationFrame and of AdvanceTime.  AnimationFrame is enabled, and changes
\* the state, exactly when a callback is queued, so its weak fairness is
\* written out with that condition.
LiveSpec ==
    /\ Spec
    /\ ([]<>(pending = {}) \/ []<><<AnimationFrame>>_vars)
    /\ WF_vars(AdvanceTime)

----------------------------------------------------------------------------
(* Properties *)

\* The envelope the estimator computes from the current parameters.
EstimatedEnvelope ==
    IF variant = "angled"
    THEN calculateMaxHeightAngled(initialVelocity, launchAngle, initialHeight)
    ELSE calculateMaxHeightPodium(initialVelocity, initialHeight)

\* The elapsed times a tick can see: the differences of two clock readings.
ElapsedTimes == {t2 - t1 : t1 \in Instants, t2 \in Instants} \cap Nat

\* C1: startSimulation() called while Running is a no-op: isRunning, the
\* start epoch, the elapsed time, the stored envelope and the queued frame
\* callbacks are unchanged; and within one run the elapsed time never
\* decreases from one step to the next (it is not reset to 0).
C1_StartWhileRunningIsNoOp ==
    [][ /\ lastEvent' = "startIgnored" =>
              UNCHANGED << isRunning, startTime, currentTime, maxHeight,
                           flightTime, pending, animationId >>
        /\ (isRunning /\ isRunning' /\ run' = run) =>
              (startTime' = startTime /\ currentTime' >= currentTime) ]_vars

\* A start was called in a run that is already past its first tick.
C1_Witness ==
    lastEvent = "startIgnored" /\ isRunning /\ currentTime > MaxSyncDelay

\* C2 as claimed: when a startSimulation() called while Idle returns, the
\* clock is Running, the start epoch is the clock's reading at the call (the
\* elapsed time counts from it), and the envelope is the one computed from
\* the current parameters.
C2_StartFromIdleRuns ==
    lastEvent = "start" =>
        /\ isRunning
        /\ startTime = now - currentTime
        /\ maxHeight = EstimatedEnvelope.maxHeight
        /\ flightTime = EstimatedEnvelope.flightTime

\* C3: in part_000 a tick while Running sets the elapsed time to now minus
\* the start epoch and samples the model there; it ends the run, with height
\* 0 and nothing queued, exactly when elapsed >= flightTime or (height <=
\* 0.01 and elapsed > 0.001); otherwise the run goes on with the sampled
\* height and exactly one callback queued.
C3_TickEndsExactlyAtGroundOrDuration ==
    [][ (variant = "angled" /\ isRunning /\ lastEvent' = "tick") =>
          LET elapsed == now - startTime
              sample == calculatePositionAngled(initialVelocity, launchAngle,
                                                initialHeight, elapsed)
              ends == \/ elapsed * FtPerMs >= flightTime
                      \/ (sample.height <= GroundEpsilon /\ elapsed > TimeEpsilon)
          IN /\ currentTime' = elapsed
             /\ ends => (~isRunning' /\ currentHeight' = 0 /\ pending' = {})
             /\ ~ends => /\ isRunning'
                         /\ currentHeight' = sample.height
                         /\ currentVelocityY' = sample.velocityY
                         /\ animationId' # 0
                         /\ pending' = {[id |-> animationId', run |-> run]} ]_vars

\* A tick ended a run before the flight time, by the ground test.
C3_Witness ==
    /\ variant = "angled"
    /\ lastEvent = "tick"
    /\ ~isRunning
    /\ currentTime > TimeEpsilon
    /\ currentTime * FtPerMs < flightTime

\* C4: after resetSimulation(), from Idle or from Running, the clock is Idle,
\* the elapsed time is 0, the height is the current initialHeight, the
\* velocities are 0 and no frame callback is queued.
C4_ResetRestsAtInitialHeight ==
    lastEvent = "reset" =>
        /\ ~isRunning
        /\ currentTime = 0
        /\ currentHeight = initialHeight
        /\ currentVelocityX = 0 /\ currentVelocityY = 0 /\ currentVelocity = 0
        /\ pending = {}

\* A reset of the podium, with its default parameters, after a run was
\* started.
C4_Witness ==
    /\ variant = "podium"
    /\ lastEvent = "reset"
    /\ run > 0
    /\ inputs = 0
    /\ initialHeight > 0

\* C5: at most one frame callback is queued, one is queued only while
\* Running, and every queued callback was scheduled by the current run (so
\* none outlives its run into Idle or into a later run).
C5_OnePendingTickOfTheCurrentRun ==
    /\ Cardinality(pending) <= 1
    /\ pending # {} => isRunning
    /\ \A p \in pending : p.run = run /\ p.id = animationId

\* A callback is queued in a second run.
C5_Witness == pending # {} /\ run >= 2

\* C6: calculatePosition returns a height >= 0 at every elapsed time, for
\* the current parameters, and the current height is never negative.
C6_HeightNeverNegative ==
    /\ currentHeight >= 0
    /\ \A t \in ElapsedTimes :
          IF variant = "angled"
          THEN calculatePositionAngled(initialVelocity, launchAngle,
                                       initialHeight, t).height >= 0
          ELSE calculatePositionPodium(initialVelocity, initialHeight,
                                       t).height >= 0

\* A running tick sampled the ball at the ground while the closed form is
\* already below it (zero vertical launch speed, falling).
C6_Witness ==
    /\ variant = "angled"
    /\ isRunning
    /\ lastEvent = "tick"
    /\ currentTime > 0
    /\ currentHeight = 0
    /\ currentVelocityY < 0

AllowedAngle(a) == (0 <= a /\ a <= 25) \/ (65 <= a /\ a <= 75)

\* C7 as claimed: launchAngle is always within [0,25] or [65,75].
C7_AngleAlwaysAllowed == variant = "angled" => AllowedAngle(launchAngle)

\* C8: the angle handler keeps a requested angle inside [0,25] or [65,75],
\* takes 25 for one strictly between 25 and 45, 65 for one strictly between
\* 45 and 65, and 75 for one above 75.
C8_AngleSnapsToNearerBound ==
    lastEvent = "angle" =>
        /\ AllowedAngle(lastInput) => launchAngle = lastInput
        /\ (25 < lastInput /\ lastInput < 45) => launchAngle = 25
        /\ (45 < lastInput /\ lastInput < 65) => launchAngle = 65
        /\ lastInput > 75 => launchAngle = 75

\* Angles were requested in the forbidden middle and above the maximum.
C8_Witness ==
    lastEvent = "angle" /\ lastInput > 75 /\ launchAngle = 75 /\ inputs >= 2

\* C9: a requested angle of exactly 45 is accepted as 25.
C9_MidpointSnapsDown ==
    (lastEvent = "angle" /\ lastInput = 45) => launchAngle = 25

C9_Witness == lastEvent = "angle" /\ lastInput = 45

\* C10 as claimed: after any slider handler the stored envelope is the one
\* the estimator computes from the current parameters.
C10_EnvelopeFreshAfterSetter ==
    lastEvent \in {"velocity", "angle", "mass", "height"} =>
        /\ maxHeight = EstimatedEnvelope.maxHeight
        /\ flightTime = EstimatedEnvelope.flightTime

\* C11: no slider handler (speed, angle, mass, initial height), in Idle or
\* in Running, changes the clock: isRunning, the start epoch, the elapsed
\* time, the held frame handle and the queued frame callbacks are unchanged.
C11_SettersLeaveTheClock ==
    [][ lastEvent' \in {"velocity", "angle", "mass", "height"} =>
          UNCHANGED << isRunning, startTime, currentTime, animationId,
                       pending, run >> ]_vars

\* A slider was moved during a run that has ticked and has a tick queued.
C11_Witness ==
    /\ lastEvent \in {"velocity", "angle", "mass", "height"}
    /\ isRunning
    /\ currentTime > 0
    /\ pending # {}

\* The angles the angle slider can leave in launchAngle that are allowed.
SliderAngles == {restrictAngle(a) : a \in AngleInputs} \cap Nat

\* calculatePosition(flightTime).height in the code's arithmetic, per speed
\* and angle, computed once.
LandingHeight ==
    [v \in AngledVelocityInputs, a \in SliderAngles |->
        heightDouble(v, a, flightTimeDouble(v, a))]

\* C12 as claimed: in part_000, for every allowed parameter setting,
\* calculatePosition(t).height is exactly 0 at every t >= flightTime: at the
\* clock's elapsed times past flightTime, and at t = flightTime itself.
C12_GroundPastFlightTime ==
    (variant = "angled" /\ AllowedAngle(launchAngle)) =>
        /\ \A t \in ElapsedTimes :
              t * FtPerMs >= EstimatedEnvelope.flightTime =>
                  calculatePositionAngled(initialVelocity, launchAngle,
                                          initialHeight, t).height = 0
        /\ LandingHeight[initialVelocity, launchAngle].m = << >>

\* C13 as claimed: in script.js, for every parameter setting,
\* calculatePosition(t).height equals initialHeight at every t >= the
\* flightTime the estimator computes for those parameters.
C13_PodiumHeightPastFlightTime ==
    variant = "podium" =>
        \A t \in ElapsedTimes :
            t * FtPerMs >= Envelope[initialVelocity, initialHeight].flightTime =>
                calculatePositionPodium(initialVelocity, initialHeight,
                                        t).height = initialHeight

\* C14: after any run of the estimator (a speed, angle or height slider, or
\* a start from Idle) the flight duration is at least the 0.1 s floor in
\* part_000 and positive in script.js, and it is positive in every Running
\* state.
C14_FlightTimePositive ==
    /\ (variant = "angled" /\ lastEvent \in {"velocity", "angle", "start"}) =>
          flightTime >= MinFlightMs * FtPerMs
    /\ (variant = "podium" /\ lastEvent \in {"velocity", "height", "start"}) =>
          flightTime > 0
    /\ isRunning => flightTime > 0

\* A run with a horizontal launch (zero vertical speed) lasts the floor.
C14_Witness ==
    /\ variant = "angled"
    /\ isRunning
    /\ launchAngle = 0
    /\ flightTime = MinFlightMs * FtPerMs

\* The last instant the model follows.
LastInstant == CHOOSE t \in Instants : \A u \in Instants : u <= t

\* The envelopes the sliders of the running variant can produce.
Envelopes ==
    IF variant = "angled"
    THEN {calculateMaxHeightAngled(v, restrictAngle(a), 0) :
             v \in AngledVelocityInputs \cup {DefaultVelocity},
             a \in AngleInputs}
    ELSE {Envelope[v, h0] : v \in PodiumVelocityInputs, h0 \in HeightInputs}

\* C15: if queued ticks keep being delivered and the wall clock keeps
\* advancing, every Running state is eventually followed by an Idle state,
\* whatever starts and slider events happen during the flight.  The clock is
\* followed up to LastInstant, so the runs checked are those started early
\* enough for the longest flight time to pass by then.
C15_RunEventuallyEnds ==
    (isRunning /\ \A e \in Envelopes :
                     (LastInstant - startTime) * FtPerMs >= e.flightTime)
        ~> ~isRunning

\* A tick at the flight time ended a podium run that the sliders changed.
C15_Witness ==
    /\ variant = "podium"
    /\ ~isRunning
    /\ lastEvent = "tick"
    /\ inputs > 0
    /\ currentTime * FtPerMs >= flightTime
    /\ flightTime > 0

\* C16 as claimed: in part_000, for a launch with positive vertical launch
\* speed, a tick that ends the run finds elapsed >= flightTime or a sampled
\* vertical velocity <= 0: no tick ends the flight while the ball ascends.
C16_NoEndWhileAscending ==
    (/\ variant = "angled"
     /\ lastEvent = "tick"
     /\ ~isRunning
     /\ initialVelocity * Sin(launchAngle) > 0) =>
        \/ currentTime * FtPerMs >= flightTime
        \/ calculatePositionAngled(initialVelocity, launchAngle,
                                   initialHeight, currentTime).velocityY <= 0

\* C17 as claimed: in script.js, the state a tick leaves when it ends the
\* flight has the current height snapped to the podium height.
C17_EndSnapsToPodium ==
    (variant = "podium" /\ lastEvent = "tick" /\ ~isRunning) =>
        currentHeight = initialHeight

\* calculatePosition(t) of script.js for the current parameters.
PodiumSample(t) == calculatePositionPodium(initialVelocity, initialHeight, t)

LandingSample == [height |-> 0, velocity |-> 0]

\* C18: in script.js, from the sample one sub-step earlier that is not a
\* landing, the velocity is the earlier velocity less gravity at the earlier
\* height, and the height is the earlier height plus the new velocity; where
\* that height is non-positive the sample is height 0, velocity 0; and once
\* calculatePosition(t1) is that landing sample, calculatePosition(t2) is
\* too for every t2 >= t1.
C18_IntegratorOrderAndLanding ==
    variant = "podium" =>
        /\ \A t \in ElapsedTimes \ {0} :
              LET p == PodiumSample(t - 1)
                  v2 == p.velocity
                          - (700000000 \div ((p.height \div 100) + 500000))
                  h2 == p.height + (v2 \div 100)
              IN IF t - 1 > 0 /\ p.height = 0
                 THEN PodiumSample(t) = LandingSample
                 ELSE PodiumSample(t) =
                          (IF h2 <= 0 THEN LandingSample
                           ELSE [height |-> h2, velocity |-> v2])
        /\ \A t1 \in ElapsedTimes, t2 \in ElapsedTimes :
              (t1 <= t2 /\ PodiumSample(t1) = LandingSample) =>
                  PodiumSample(t2) = LandingSample

\* A tick sampled the ball after it had landed on the ground.
C18_Witness ==
    /\ variant = "podium"
    /\ lastEvent = "tick"
    /\ initialVelocity > 0
    /\ currentTime > 0
    /\ PodiumSample(currentTime) = LandingSample
    /\ \E t \in ElapsedTimes : t < currentTime /\ PodiumSample(t).height > 0

\* The estimator's result for LongShot, computed once.
LongShotEnvelope == calculateMaxHeightPodium(LongShot[1], LongShot[2])

\* C19 as claimed: in script.js, when the landing search reaches its time
\* ceiling without the height having come back to the launch height (no
\* sample at t = 0.2, 0.3, ... below the ceiling is within 0.01 of it or
\* lower), flightTime is the ceiling of that search.  LongShot is such a
\* launch.
C19_CeilingIsTheFallback ==
    (/\ variant = "podium"
     /\ FirstLanding(LongShot[1], LongShot[2], 0,
                     (LandCeilingMs \div LandStepMs) - 1) = -1) =>
        LongShotEnvelope.flightTime = LandCeilingMs * FtPerMs

============================================================================
